---- MODULE Spec2Model ----
(***************************************************************************)
(* Model of the Spotify MCP server (src/server/server.py): the module-wide *)
(* credential cache (access_token, expires_at), get_access_token(), the    *)
(* three request wrappers spotify_get / spotify_post / spotify_put, and    *)
(* the response shaping of the tools; and of the prompt loop of its client *)
(* (src/final/client/client.py).                                           *)
(*                                                                         *)
(* The server runs its tools as asyncio coroutines: code between two       *)
(* awaits is atomic, and a coroutine can be suspended at each awaited      *)
(* network call (client.post / client.get / client.put).  One action of    *)
(* the model is one such atomic stretch of a tool call.                    *)
(***************************************************************************)
EXTENDS Integers, Sequences, FiniteSets, TLC

\* ---------------------------------------------------------------- bounds
NumTasks == 2   \* tool calls that may be in flight at once
MaxTime  == 3   \* the clock runs over 1..MaxTime
MaxTTL   == 2   \* expires_in of a token response is in 1..MaxTTL
MaxCalls == 3   \* total number of wrapper calls started in one behaviour
MaxItems == 2   \* longest list of items in an upstream payload
MaxLen   == 4   \* longest track_uri string given to add_to_playlist
MaxLines == 3   \* lines typed at the client's prompt in one behaviour

Tasks == 1..NumTasks
TTLs  == 1..MaxTTL

\* ------------------------------------------------------------- constants
None == 0        \* access_token = None ; tokens are the positive integers

Verbs == {"GET", "POST", "PUT"}

\* status codes an upstream can answer with, and the kinds of body
Statuses == {200, 201, 204, 404}
Bodies   == {"empty", "json"}

\* what the token endpoint can answer to the refresh-token POST
ExchangeOutcomes ==
  {"ok", "http_error", "no_access_token", "no_expires_in"}

NoResp   == [status |-> 0, body |-> "none"]
Response == [status : Statuses, body : Bodies]

Result(k, s) == [kind |-> k, status |-> s]
NoResult == Result("none", 0)

VARIABLES
  now,            \* time.time()
  access_token,   \* module global, None until the first exchange
  expires_at,     \* module global, 0 until the first exchange
  exchanges,      \* number of POSTs sent to the token endpoint so far
  failedAt,       \* 0, or the value of exchanges when get_access_token()
                  \* raised last
  expFrom,        \* serial number of the exchange whose response line 44
                  \* took the stored expires_at from (None until then)
  calls,          \* number of wrapper calls started so far
  pc,             \* per task: where the coroutine is suspended
  why,            \* per task: what line 26 found (cached, empty, expired),
                  \*           or "lastfm" for a call of lastfm_get
  ex,             \* per task: exchanges started by the current call
  exId,           \* per task: serial number of its exchange (= its token)
  token           \* per task: value returned by get_access_token(), sent
                  \*           as the bearer token of the upstream request

VARIABLES
  tool,           \* the tool whose response shaping is followed
  targ,           \* its arguments
  tpc,            \* "idle", "requesting" (awaiting the upstream), "returned"
  upstream,       \* the upstream response to the tool's request
  wrapped,        \* what the tool's wrapper returned or raised
  raw,            \* the JSON document the wrapper returned to the tool
  out,            \* what the tool returned, or Raised
  request,        \* the uris of the request body the tool built
  reply,          \* what the caller of the tool gets back
  alive           \* the server still takes tool calls

VARIABLES
  lines,          \* client: the lines input() has returned so far
  invoked,        \* client: the lines agent.ainvoke was called with
  log,            \* client: what was printed for each finished invocation
  cpc             \* client: "reading" (at input()), "invoking" (awaiting
                  \* agent.ainvoke), "stopped" (after break), "eof"

credVars == <<access_token, expires_at, exchanges, failedAt, expFrom>>
taskVars == <<pc, why, ex, exId, token>>
toolVars ==
  <<tool, targ, tpc, upstream, wrapped, raw, out, request, reply, alive>>
clientVars == <<lines, invoked, log, cpc>>
vars == <<now, credVars, calls, taskVars, toolVars, clientVars>>

\* ----------------------------------------------------- get_access_token
\* variants of line 26: an expiry margin of one tick; the expiry instant
\* itself still counted as valid
CacheValidMargin(tok, t, exp) == tok # None /\ t + 1 < exp

CacheValidInclusive(tok, t, exp) == tok # None /\ t <= exp

\* variant of line 26 with "or" for "and"
CacheValidOr(tok, t, exp) == tok # None \/ t < exp

\* line 26: if access_token and time.time() < expires_at
CacheValid(tok, t, exp) == tok # None /\ t < exp

\* variant of lines 40-46 that returns the token read before the exchange
StoreAfterExchangeStale(outcome, id, ttl, tok, exp, t) ==
  CASE outcome = "ok" ->
         [access_token |-> id, expires_at |-> t + ttl,
          wrote_expiry |-> TRUE, raised |-> FALSE, ret |-> tok]
    [] outcome = "no_expires_in" ->
         [access_token |-> id, expires_at |-> exp,
          wrote_expiry |-> FALSE, raised |-> TRUE, ret |-> None]
    [] OTHER ->
         [access_token |-> tok, expires_at |-> exp,
          wrote_expiry |-> FALSE, raised |-> TRUE, ret |-> None]

\* variant of lines 40-46 without line 44
StoreAfterExchangeTokenOnly(outcome, id, ttl, tok, exp, t) ==
  CASE outcome \in {"ok", "no_expires_in"} ->
         [access_token |-> id, expires_at |-> exp,
          wrote_expiry |-> FALSE, raised |-> (outcome # "ok"),
          ret |-> IF outcome = "ok" THEN id ELSE None]
    [] OTHER ->
         [access_token |-> tok, expires_at |-> exp,
          wrote_expiry |-> FALSE, raised |-> TRUE, ret |-> None]

\* lines 40-46: what the code does with the token endpoint's answer.
\* id is the access_token of the answer, ttl its expires_in.
\*   http_error      : raise_for_status() raises at line 40, nothing written
\*   no_access_token : KeyError at line 43, nothing written
\*   no_expires_in   : line 43 writes access_token, line 44 raises KeyError
\*   ok              : both written, line 46 returns the global
\* wrote_expiry tells whether line 44 stored the expiry of this answer.
StoreAfterExchange(outcome, id, ttl, tok, exp, t) ==
  CASE outcome = "ok" ->
         [access_token |-> id, expires_at |-> t + ttl,
          wrote_expiry |-> TRUE, raised |-> FALSE, ret |-> id]
    [] outcome = "no_expires_in" ->
         [access_token |-> id, expires_at |-> exp,
          wrote_expiry |-> FALSE, raised |-> TRUE, ret |-> None]
    [] OTHER ->
         [access_token |-> tok, expires_at |-> exp,
          wrote_expiry |-> FALSE, raised |-> TRUE, ret |-> None]

\* ------------------------------------------------------ request wrappers
\* httpx: raise_for_status() raises unless the status is 2xx
Is2xx(s) == s >= 200 /\ s < 300

\* resp.raise_for_status(); return resp.json()
RaiseThenJson(r) ==
  IF ~Is2xx(r.status) THEN Result("http_error", r.status)
  ELSE IF r.body = "json" THEN Result("json", r.status)
  ELSE Result("decode_error", r.status)

spotify_get(r) == RaiseThenJson(r)

\* variant of spotify_put without lines 117-119
spotify_put_plain(r) == RaiseThenJson(r)

\* lines 106-122: the marker for 204, 200 or an empty body (not resp.content)
\* is returned before raise_for_status() is reached
spotify_put(r) ==
  IF r.status = 204 \/ r.status = 200 \/ r.body = "empty"
  THEN Result("ok_marker", r.status)
  ELSE RaiseThenJson(r)

\* variant of spotify_post with the empty-body rule of spotify_put
spotify_post_marker(r) ==
  IF r.body = "empty" THEN Result("ok_marker", r.status)
  ELSE RaiseThenJson(r)

spotify_post(r) == RaiseThenJson(r)

Wrapper(v, r) ==
  CASE v = "GET"  -> spotify_get(r)
    [] v = "POST" -> spotify_post(r)
    [] v = "PUT"  -> spotify_put(r)


\* ----------------------------------------------------------------- JSON
\* JSON values as the tools see them after resp.json(): None, str, int,
\* bool, list and dict.  Raised stands for an exception leaving the
\* expression that was evaluated.
JNull    == [t |-> "null"]
JStr(s)  == [t |-> "str", s |-> s]
JNum(n)  == [t |-> "num", n |-> n]
JBool(b) == [t |-> "bool", b |-> b]
JArr(a)  == [t |-> "arr", a |-> a]
JObj(o)  == [t |-> "obj", o |-> o]
Raised   == [t |-> "raise"]

\* a key that the dict does not have; Obj(rec) is the dict with the keys of
\* rec whose value is not Absent
Absent == [t |-> "absent"]
Obj(rec) == JObj([k \in {x \in DOMAIN rec : rec[x] # Absent} |-> rec[k]])
EmptyObj == JObj(<<>>)
EmptyArr == JArr(<<>>)

\* v.get(k, d): AttributeError unless v is a dict
PyGet(v, k, d) ==
  IF v.t # "obj" THEN Raised
  ELSE IF k \in DOMAIN v.o THEN v.o[k] ELSE d

\* v[k] for a str k: KeyError on a dict without k, TypeError on None or a list
PyIndex(v, k) ==
  IF v.t # "obj" THEN Raised
  ELSE IF k \in DOMAIN v.o THEN v.o[k] ELSE Raised

\* truth value of v in "if v" and "v or []"
Truthy(v) ==
  CASE v.t = "null" -> FALSE
    [] v.t = "str"  -> v.s # ""
    [] v.t = "num"  -> v.n # 0
    [] v.t = "bool" -> v.b
    [] v.t = "arr"  -> Len(v.a) > 0
    [] v.t = "obj"  -> DOMAIN v.o # {}

\* "for x in v": the elements of a list, TypeError on None, int and bool.
\* (The payloads below never hold a str or a dict where the code iterates.)
PyIter(v) ==
  CASE v.t = "arr" -> v
    [] v.t \in {"null", "num", "bool", "raise"} -> Raised

\* the list [f(x) for x in v], or Raised when iterating or some f(x) raises
AnyRaised(seq) == \E n \in 1..Len(seq) : seq[n] = Raised

\* [a.get("name") for a in v]
NamesGet(v) ==
  LET it == PyIter(v) IN
  IF it = Raised THEN Raised
  ELSE LET names == [n \in 1..Len(it.a) |-> PyGet(it.a[n], "name", JNull)]
       IN IF AnyRaised(names) THEN Raised ELSE JArr(names)

\* [a["name"] for a in v]
NamesIndex(v) ==
  LET it == PyIter(v) IN
  IF it = Raised THEN Raised
  ELSE LET names == [n \in 1..Len(it.a) |-> PyIndex(it.a[n], "name")]
       IN IF AnyRaised(names) THEN Raised ELSE JArr(names)

\* a dict literal: evaluating it raises when one of its values raises
Dict(rec) ==
  IF \E k \in DOMAIN rec : rec[k] = Raised THEN Raised ELSE JObj(rec)

\* ---------------------------------------------------------------- tools
lastfm_get(r) == RaiseThenJson(r)

\* variant of lines 155-162 that reads the uri with item["uri"]
SearchItemIndexed(item) ==
  Dict([id      |-> PyGet(item, "id", JNull),
        name    |-> PyGet(item, "name", JNull),
        uri     |-> PyIndex(item, "uri"),
        artists |-> LET c == PyGet(item, "artists", JNull) IN
                    IF c = Raised THEN Raised
                    ELSE IF Truthy(c)
                         THEN NamesGet(PyGet(item, "artists", EmptyArr))
                         ELSE JNull,
        album   |-> LET c == PyGet(item, "album", JNull) IN
                    IF c = Raised THEN Raised
                    ELSE IF Truthy(c)
                         THEN PyGet(PyGet(item, "album", EmptyObj),
                                    "name", JNull)
                         ELSE JNull])

\* lines 155-162: one cleaned record of search_spotify
SearchItem(item) ==
  Dict([id      |-> PyGet(item, "id", JNull),
        name    |-> PyGet(item, "name", JNull),
        uri     |-> PyGet(item, "uri", JNull),
        artists |-> LET c == PyGet(item, "artists", JNull) IN
                    IF c = Raised THEN Raised
                    ELSE IF Truthy(c)
                         THEN NamesGet(PyGet(item, "artists", EmptyArr))
                         ELSE JNull,
        album   |-> LET c == PyGet(item, "album", JNull) IN
                    IF c = Raised THEN Raised
                    ELSE IF Truthy(c)
                         THEN PyGet(PyGet(item, "album", EmptyObj),
                                    "name", JNull)
                         ELSE JNull])

\* lines 143-164
search_spotify(rawdoc, search_type) ==
  LET container == search_type \o "s"
      c  == PyIndex(rawdoc, container)
      i  == IF c = Raised THEN Raised ELSE PyIndex(c, "items")
      items == IF i = Raised THEN EmptyArr ELSE i   \* except Exception
      it == PyIter(items)
  IN IF it = Raised THEN Raised
     ELSE LET cleaned == [n \in 1..Len(it.a) |-> SearchItem(it.a[n])]
          IN IF AnyRaised(cleaned) THEN Raised
             ELSE JObj([type |-> JStr(search_type), items |-> JArr(cleaned)])

\* lines 184-191: one cleaned record of artist_top_tracks
TopTrack(tr) ==
  Dict([id         |-> PyGet(tr, "id", JNull),
        name       |-> PyGet(tr, "name", JNull),
        uri        |-> PyGet(tr, "uri", JNull),
        artists    |-> NamesGet(PyGet(tr, "artists", EmptyArr)),
        album      |-> PyGet(PyGet(tr, "album", EmptyObj), "name", JNull),
        popularity |-> PyGet(tr, "popularity", JNull)])

\* lines 179-193
artist_top_tracks(rawdoc) ==
  LET it == PyIter(PyGet(rawdoc, "tracks", EmptyArr))
  IN IF it = Raised THEN Raised
     ELSE LET cleaned == [n \in 1..Len(it.a) |-> TopTrack(it.a[n])]
          IN IF AnyRaised(cleaned) THEN Raised
             ELSE JObj([tracks |-> JArr(cleaned)])

\* lines 230-237: one cleaned record of current_user_top_tracks
RankedTrack(idx, tr) ==
  Dict([rank    |-> JNum(idx),
        id      |-> PyGet(tr, "id", JNull),
        name    |-> PyGet(tr, "name", JNull),
        uri     |-> PyGet(tr, "uri", JNull),
        artists |-> NamesGet(PyGet(tr, "artists", EmptyArr)),
        album   |-> PyGet(PyGet(tr, "album", EmptyObj), "name", JNull)])

\* lines 224-239
current_user_top_tracks(rawdoc) ==
  LET g == PyGet(rawdoc, "items", EmptyArr)
      items == IF g = Raised THEN Raised
               ELSE IF Truthy(g) THEN g ELSE EmptyArr     \* ... or []
      it == PyIter(items)
  IN IF it = Raised THEN Raised
     ELSE LET cleaned == [n \in 1..Len(it.a) |-> RankedTrack(n, it.a[n])]
          IN IF AnyRaised(cleaned) THEN Raised ELSE JArr(cleaned)

\* lines 261-268: one record of get_current_user_playlists
Playlist(p) ==
  Dict([id           |-> PyIndex(p, "id"),
        name         |-> PyIndex(p, "name"),
        uri          |-> PyIndex(p, "uri"),
        description  |-> PyIndex(p, "description"),
        owner        |-> PyIndex(PyIndex(p, "owner"), "display_name"),
        tracks_total |-> PyIndex(PyIndex(p, "tracks"), "total")])

\* lines 255-272
get_current_user_playlists(rawdoc, limit, offset) ==
  LET items == PyIndex(rawdoc, "items")
      total == PyIndex(rawdoc, "total")
      it == PyIter(items)
  IN IF items = Raised \/ total = Raised \/ it = Raised THEN Raised
     ELSE LET playlists == [n \in 1..Len(it.a) |-> Playlist(it.a[n])]
          IN IF AnyRaised(playlists) THEN Raised
             ELSE JObj([total_playlists |-> total,
                        returned  |-> JNum(Len(playlists)),
                        limit     |-> JNum(limit),
                        offset    |-> JNum(offset),
                        playlists |-> JArr(playlists)])

\* lines 298-307: one record of get_playlist_items
PlaylistEntry(entry) ==
  LET track == PyIndex(entry, "track") IN
  Dict([id       |-> PyIndex(track, "id"),
        name     |-> PyIndex(track, "name"),
        uri      |-> PyIndex(track, "uri"),
        artists  |-> NamesIndex(PyIndex(track, "artists")),
        album    |-> PyIndex(PyIndex(track, "album"), "name"),
        explicit |-> PyIndex(track, "explicit")])

\* lines 290-309
get_playlist_items(rawdoc, limit, offset) ==
  LET items == PyIndex(rawdoc, "items")
      total == PyIndex(rawdoc, "total")
      it == PyIter(items)
  IN IF items = Raised \/ total = Raised \/ it = Raised THEN Raised
     ELSE LET cleaned == [n \in 1..Len(it.a) |-> PlaylistEntry(it.a[n])]
          IN IF AnyRaised(cleaned) THEN Raised
             ELSE JObj([total_tracks |-> total,
                        returned |-> JNum(Len(cleaned)),
                        limit    |-> JNum(limit),
                        offset   |-> JNum(offset),
                        items    |-> JArr(cleaned)])

\* lines 356-360
get_similar_tracks(rawdoc) ==
  LET it == PyIter(PyIndex(PyIndex(rawdoc, "similartracks"), "track"))
  IN IF it = Raised THEN Raised
     ELSE LET results ==
                [n \in 1..Len(it.a) |->
                   Dict([track  |-> PyIndex(it.a[n], "name"),
                         artist |-> PyIndex(PyIndex(it.a[n], "artist"),
                                            "name")])]
          IN IF AnyRaised(results) THEN Raised
             ELSE JObj([similar_tracks |-> JArr(results)])

\* lines 374-379
get_similar_artists(rawdoc) ==
  LET names == NamesIndex(PyIndex(PyIndex(rawdoc, "similarartists"),
                                  "artist"))
  IN IF names = Raised THEN Raised
     ELSE JObj([similar_artists |-> names])

Tools ==
  {"search_spotify", "artist_top_tracks", "current_user_profile",
   "current_user_top_tracks", "get_current_user_playlists",
   "get_playlist_items", "create_playlist", "add_to_playlist",
   "get_similar_tracks", "get_similar_artists", "start_playback",
   "pause_playback"}

\* the tools that shape the document of their wrapper; the others return it
ShapingTools ==
  {"search_spotify", "artist_top_tracks", "current_user_top_tracks",
   "get_current_user_playlists", "get_playlist_items",
   "get_similar_tracks", "get_similar_artists"}

\* the request wrapper a tool goes through
ToolVerb(name) ==
  CASE name \in {"create_playlist", "add_to_playlist"} -> "POST"
    [] name \in {"start_playback", "pause_playback"} -> "PUT"
    [] OTHER -> "GET"

\* line 119: {"status": "ok"}
OkMarker == JObj([status |-> JStr("ok")])

SearchTypes == {"track", "artist"}

NoArg ==
  [search_type |-> "none", limit |-> 0, offset |-> 0, track_uri |-> <<>>]

\* the tools that call lastfm_get; the others call a Spotify wrapper, which
\* awaits get_access_token() first
LastfmTools == {"get_similar_tracks", "get_similar_artists"}

\* --------------------------------------------------------- add_to_playlist
\* A track_uri string is a sequence of characters: two letters that stand
\* for the characters of a URI, the comma and the blank.
Chars == {"a", "b", ",", " "}

TrackUris == UNION {[1..n -> Chars] : n \in 0..MaxLen}

\* str.split(','): the pieces between the commas, empty pieces included;
\* a string without a comma is its own single piece
RECURSIVE split(_)
split(s) ==
  IF \A i \in 1..Len(s) : s[i] # ","
  THEN <<s>>
  ELSE LET i == CHOOSE k \in 1..Len(s) :
                  s[k] = "," /\ \A j \in 1..(k - 1) : s[j] # ","
       IN <<SubSeq(s, 1, i - 1)>> \o split(SubSeq(s, i + 1, Len(s)))

\* str.strip(): leading and trailing whitespace removed
RECURSIVE strip(_)
strip(s) ==
  IF s = <<>> THEN s
  ELSE IF Head(s) = " " THEN strip(Tail(s))
  ELSE IF s[Len(s)] = " " THEN strip(SubSeq(s, 1, Len(s) - 1))
  ELSE s

\* line 340: uri_list = [uri.strip() for uri in track_uri.split(',')]
uri_list(track_uri) ==
  LET parts == split(track_uri)
  IN [i \in 1..Len(parts) |-> strip(parts[i])]

NoRequest == <<>>

\* line 341: add_to_playlist posts {"uris": uri_list}; the request bodies of
\* the other tools are not followed
RequestUris(name, a) ==
  IF name = "add_to_playlist" THEN uri_list(a.track_uri) ELSE NoRequest

\* the arguments a tool is called with
ToolArgs(name) ==
  CASE name = "search_spotify" ->
         {[search_type |-> st, limit |-> 5, offset |-> 0,
           track_uri |-> <<>>] : st \in SearchTypes}
    [] name = "add_to_playlist" ->
         {[search_type |-> "none", limit |-> 10, offset |-> 0,
           track_uri |-> u] : u \in TrackUris}
    [] OTHER ->
         {[search_type |-> "none", limit |-> 10, offset |-> 0,
           track_uri |-> <<>>]}

\* ------------------------------------------------------ the tool boundary
\* What the caller of a tool gets when the tool function returned o or
\* raised (o = Raised).  server.py registers its tools with @mcp.tool() and
\* catches nothing itself; the part that runs a tool and answers the caller
\* is the Dispatcher of the specification (invoke, step 4): an error of the
\* tool becomes an error result that names the tool, and the server goes on.
NoReply == [isError |-> FALSE, tool |-> "none"]

\* variant: the error leaves the dispatcher and ends the server
DispatchUnhandled(name, o) ==
  IF o = Raised
  THEN [reply |-> NoReply, alive |-> FALSE]
  ELSE [reply |-> [isError |-> FALSE, tool |-> name], alive |-> TRUE]

Dispatch(name, o) ==
  [reply |-> [isError |-> (o = Raised), tool |-> name], alive |-> TRUE]


\* ------------------------------------------------- upstream JSON payloads
\* Well-formed 2xx payloads of the Spotify and Last.fm endpoints in which
\* containers and optional fields may be absent or null.
Lists(S) == {JArr(a) : a \in UNION {[1..n -> S] : n \in 0..MaxItems}}

ArtistRefs == {Obj([name |-> JStr("A")]), Obj([name |-> JStr("B")])}

ArtistsVals ==
  {Absent, JNull, EmptyArr, JArr(<<EmptyObj>>), JArr(<<JNull>>)}
    \cup {JArr(<<x>>) : x \in ArtistRefs}
    \cup {JArr(<<Obj([name |-> JStr("A")]), Obj([name |-> JStr("B")])>>)}

AlbumVals ==
  {Absent, JNull, EmptyObj, Obj([name |-> JStr("Alb")]), Obj([name |-> JNull])}

TrackItems ==
  {Obj([id |-> i, name |-> JStr("Song"), uri |-> u, artists |-> ar,
        album |-> al, popularity |-> Absent]) :
     i \in {Absent, JStr("1")},
     u \in {Absent, JNull, JStr("spotify:track:1")},
     ar \in ArtistsVals, al \in AlbumVals}
    \cup {JNull}

\* the items that longer lists are made of
FewTracks ==
  {Obj([id |-> JStr("1"), name |-> JStr("Song"),
        uri |-> JStr("spotify:track:1"),
        artists |-> JArr(<<Obj([name |-> JStr("A")])>>),
        album |-> Obj([name |-> JStr("Alb")])]),
   Obj([id |-> JStr("2"), name |-> JStr("Tune")]),
   JNull}

TrackLists == Lists(FewTracks) \cup {JArr(<<x>>) : x \in TrackItems}

ItemContainers ==
  {JNull, EmptyObj, Obj([items |-> JNull])}
    \cup {Obj([items |-> l]) : l \in TrackLists}

\* items of an artist search: no artists and no album
FewArtists ==
  {Obj([id |-> JStr("a1"), name |-> JStr("A"),
        uri |-> JStr("spotify:artist:a1")]),
   Obj([id |-> JStr("a2"), name |-> JStr("B")])}


SearchPayloads ==
  {JNull, EmptyObj}
    \cup {Obj([tracks |-> c]) : c \in ItemContainers}
    \cup {Obj([artists |-> c]) :
            c \in {JNull, EmptyObj}
                    \cup {Obj([items |-> l]) : l \in Lists(FewArtists)}}

TopTracksPayloads ==
  {JNull, EmptyObj, Obj([tracks |-> JNull])}
    \cup {Obj([tracks |-> l]) : l \in TrackLists}

UserTopTracksPayloads ==
  {JNull, EmptyObj, Obj([items |-> JNull])}
    \cup {Obj([items |-> l]) : l \in TrackLists}

PlaylistObjs ==
  {Obj([id |-> JStr("p1"), name |-> JStr("Mix"), uri |-> u,
        description |-> d, owner |-> o, tracks |-> tr]) :
     u \in {Absent, JStr("spotify:playlist:p1")},
     d \in {Absent, JNull, JStr("")},
     o \in {Absent, JNull, Obj([display_name |-> JStr("me")]),
            Obj([display_name |-> JNull])},
     tr \in {Absent, JNull, Obj([total |-> JNum(2)])}}
    \cup {JNull}

FewPlaylists ==
  {Obj([id |-> JStr("p1"), name |-> JStr("Mix"),
        uri |-> JStr("spotify:playlist:p1"), description |-> JStr(""),
        owner |-> Obj([display_name |-> JStr("me")]),
        tracks |-> Obj([total |-> JNum(2)])]),
   Obj([id |-> JStr("p2"), name |-> JStr("Old")])}

PlaylistsPayloads ==
  {JNull, EmptyObj}
    \cup {Obj([items |-> l, total |-> tt]) :
            l \in {Absent, JNull} \cup Lists(FewPlaylists)
                    \cup {JArr(<<x>>) : x \in PlaylistObjs},
            tt \in {Absent, JNum(2)}}

FullTrack ==
  Obj([id |-> JStr("1"), name |-> JStr("Song"),
       uri |-> JStr("spotify:track:1"),
       artists |-> JArr(<<Obj([name |-> JStr("A")])>>),
       album |-> Obj([name |-> JStr("Alb")]), explicit |-> JBool(FALSE)])

EntryObjs ==
  {Obj([track |-> tr]) :
     tr \in {Absent, JNull, FullTrack}
              \cup {Obj([id |-> JStr("1"), name |-> JStr("Song"),
                         uri |-> u, artists |-> ar, album |-> al,
                         explicit |-> e]) :
                      u \in {Absent, JStr("spotify:track:1")},
                      ar \in {Absent, JNull, EmptyArr},
                      al \in {JNull, Obj([name |-> JStr("Alb")])},
                      e \in {Absent, JBool(TRUE)}}}

PlaylistItemsPayloads ==
  {JNull, EmptyObj}
    \cup {Obj([items |-> l, total |-> tt]) :
            l \in {Absent, JNull}
                    \cup Lists({Obj([track |-> FullTrack]),
                                Obj([track |-> JNull])})
                    \cup {JArr(<<x>>) : x \in EntryObjs},
            tt \in {Absent, JNum(2)}}

SimilarTrackObjs ==
  {Obj([name |-> n, artist |-> a]) :
     n \in {Absent, JStr("Song")},
     a \in {Absent, JNull, EmptyObj, Obj([name |-> JStr("A")])}}

SimilarTracksPayloads ==
  {JNull, EmptyObj, Obj([similartracks |-> JNull]),
   Obj([similartracks |-> EmptyObj]),
   Obj([similartracks |-> Obj([track |-> JNull])])}
    \cup {Obj([similartracks |-> Obj([track |-> l])]) :
            l \in Lists(SimilarTrackObjs)}

\* documents of the endpoints whose tools return them as they are
PlainPayloads == {JNull, EmptyObj, Obj([id |-> JStr("u1")])}

SimilarArtistsPayloads ==
  {JNull, EmptyObj, Obj([similarartists |-> JNull]),
   Obj([similarartists |-> EmptyObj]),
   Obj([similarartists |-> Obj([artist |-> JNull])])}
    \cup {Obj([similarartists |-> Obj([artist |-> l])]) :
            l \in Lists(ArtistRefs \cup {EmptyObj, JNull})}

\* the response shaping of a tool applied to the document its wrapper returned
Shape(name, a, doc) ==
  CASE name = "search_spotify" -> search_spotify(doc, a.search_type)
    [] name = "artist_top_tracks" -> artist_top_tracks(doc)
    [] name = "current_user_top_tracks" -> current_user_top_tracks(doc)
    [] name = "get_current_user_playlists" ->
         get_current_user_playlists(doc, a.limit, a.offset)
    [] name = "get_playlist_items" ->
         get_playlist_items(doc, a.limit, a.offset)
    [] name = "get_similar_tracks" -> get_similar_tracks(doc)
    [] name = "get_similar_artists" -> get_similar_artists(doc)
    [] OTHER -> doc

\* ------------------------------------------- the client's prompt loop
\* src/final/client/client.py, lines 24-60.  A line is the empty string or
\* a query.
Inputs == {"", "q1", "q2"}

\* the loop is at its first input(), nothing typed yet
InitClient ==
  /\ lines = <<>>
  /\ invoked = <<>>
  /\ log = <<>>
  /\ cpc = "reading"

\* variant of lines 27-58 without the try/except
AfterInvokeUncaught(outcome) ==
  IF outcome = "exception"
  THEN [printed |-> "traceback", next |-> "stopped"]
  ELSE [printed |-> "answer", next |-> "reading"]

\* lines 27-58: the answer of the agent is printed; an Exception raised by
\* agent.ainvoke (or by the printing) is caught at line 57 and printed as
\* "Error: ..."; either way the while loop goes round
AfterInvoke(outcome) ==
  IF outcome = "exception"
  THEN [printed |-> "Error", next |-> "reading"]
  ELSE [printed |-> "answer", next |-> "reading"]

\* lines 25-28, 59-60: input() returns a line; a non-empty line is handed
\* to agent.ainvoke, on which the loop suspends; an empty line breaks
ReadLine(line) ==
  /\ cpc = "reading"
  /\ Len(lines) < MaxLines
  /\ lines' = Append(lines, line)
  /\ IF line # ""
     THEN /\ invoked' = Append(invoked, line)
          /\ cpc' = "invoking"
     ELSE /\ cpc' = "stopped"
          /\ UNCHANGED invoked
  /\ UNCHANGED <<now, credVars, calls, taskVars, toolVars, log>>

\* line 25: standard input is closed; input() raises EOFError outside the
\* try, which ends run_agent
ReadEOF ==
  /\ cpc = "reading"
  /\ cpc' = "eof"
  /\ UNCHANGED <<now, credVars, calls, taskVars, toolVars, lines, invoked,
                 log>>

\* agent.ainvoke returns or raises
AgentAnswers(outcome) ==
  /\ cpc = "invoking"
  /\ log' = Append(log, AfterInvoke(outcome).printed)
  /\ cpc' = AfterInvoke(outcome).next
  /\ UNCHANGED <<now, credVars, calls, taskVars, toolVars, lines, invoked>>

NextClient ==
  \/ \E line \in Inputs : ReadLine(line)
  \/ ReadEOF
  \/ \E outcome \in {"answer", "exception"} : AgentAnswers(outcome)

\* ------------------------------------------------------------------ Init
Init ==
  /\ now = 1
  /\ access_token = None
  /\ expires_at = 0
  /\ exchanges = 0
  /\ failedAt = 0
  /\ expFrom = None
  /\ calls = 0
  /\ pc = [t \in Tasks |-> "idle"]
  /\ why = [t \in Tasks |-> "none"]
  /\ ex = [t \in Tasks |-> 0]
  /\ exId = [t \in Tasks |-> None]
  /\ token = [t \in Tasks |-> None]
  /\ tool = "none"
  /\ targ = NoArg
  /\ tpc = "idle"
  /\ upstream = NoResp
  /\ wrapped = NoResult
  /\ raw = JNull
  /\ out = JNull
  /\ request = NoRequest
  /\ reply = NoReply
  /\ alive = TRUE
  /\ InitClient

\* --------------------------------------------------------------- actions
\* the clock advances
Tick ==
  /\ now < MaxTime
  /\ now' = now + 1
  /\ UNCHANGED <<credVars, calls, taskVars, toolVars, clientVars>>

\* A tool calls spotify_get, spotify_post or spotify_put (they differ only
\* in the request they send and in what they do with its response, which
\* ToolResponse models): the wrapper awaits get_access_token(), which runs
\* line 26 and either returns the cached token, after which the wrapper
\* sends the upstream request and suspends on it, or sends the
\* refresh-token POST and suspends on that.
Call(t) ==
  /\ pc[t] = "idle"
  /\ calls < MaxCalls
  /\ calls' = calls + 1
  /\ why' = [why EXCEPT ![t] =
               IF CacheValid(access_token, now, expires_at) THEN "cached"
               ELSE IF access_token = None THEN "empty" ELSE "expired"]
  /\ IF CacheValid(access_token, now, expires_at)
     THEN /\ token' = [token EXCEPT ![t] = access_token]
          /\ pc' = [pc EXCEPT ![t] = "requesting"]
          /\ UNCHANGED <<exchanges, ex, exId>>
     ELSE /\ exchanges' = exchanges + 1
          /\ exId' = [exId EXCEPT ![t] = exchanges + 1]
          /\ ex' = [ex EXCEPT ![t] = ex[t] + 1]
          /\ pc' = [pc EXCEPT ![t] = "exchanging"]
          /\ UNCHANGED token
  /\ UNCHANGED <<now, access_token, expires_at, failedAt, expFrom, toolVars,
               clientVars>>

\* The coroutine of task t ends (it returned or raised): its locals are gone.
Finish(t) ==
  /\ pc' = [pc EXCEPT ![t] = "idle"]
  /\ why' = [why EXCEPT ![t] = "none"]
  /\ ex' = [ex EXCEPT ![t] = 0]
  /\ exId' = [exId EXCEPT ![t] = None]
  /\ token' = [token EXCEPT ![t] = None]

\* The token endpoint answers: lines 40-46 run.  If they raise, the
\* exception leaves the wrapper and the tool; otherwise the wrapper sends
\* the upstream request with the returned token and suspends on it.
ExchangeResponse(t, outcome, ttl) ==
  /\ pc[t] = "exchanging"
  /\ LET s == StoreAfterExchange(outcome, exId[t], ttl,
                                 access_token, expires_at, now)
     IN /\ access_token' = s.access_token
        /\ expires_at' = s.expires_at
        /\ expFrom' = IF s.wrote_expiry THEN exId[t] ELSE expFrom
        /\ IF s.raised
           THEN /\ failedAt' = exchanges
                /\ Finish(t)
           ELSE /\ token' = [token EXCEPT ![t] = s.ret]
                /\ pc' = [pc EXCEPT ![t] = "requesting"]
                /\ UNCHANGED <<failedAt, why, ex, exId>>
  /\ UNCHANGED <<now, exchanges, calls, toolVars, clientVars>>

\* The upstream answers the request: the rest of the wrapper runs and the
\* call ends with the wrapper's return value or exception; the credential
\* store is not touched.
UpstreamResponse(t) ==
  /\ pc[t] = "requesting"
  /\ Finish(t)
  /\ UNCHANGED <<now, credVars, calls, toolVars, clientVars>>

\* variant of lastfm_get that awaits get_access_token() first, as the
\* Spotify wrappers do
LastfmCallWithToken(t) ==
  /\ pc[t] = "idle"
  /\ calls < MaxCalls
  /\ calls' = calls + 1
  /\ why' = [why EXCEPT ![t] = "lastfm"]
  /\ IF CacheValid(access_token, now, expires_at)
     THEN /\ pc' = [pc EXCEPT ![t] = "lastfm"]
          /\ UNCHANGED <<exchanges, ex, exId>>
     ELSE /\ exchanges' = exchanges + 1
          /\ exId' = [exId EXCEPT ![t] = exchanges + 1]
          /\ ex' = [ex EXCEPT ![t] = ex[t] + 1]
          /\ pc' = [pc EXCEPT ![t] = "exchanging"]
  /\ UNCHANGED <<now, access_token, expires_at, failedAt, expFrom, token,
                 toolVars, clientVars>>

\* lines 51-65: get_similar_tracks or get_similar_artists calls lastfm_get,
\* which sends its GET with the api_key and suspends on it; it neither
\* reads nor writes the credential store
LastfmCall(t) ==
  /\ pc[t] = "idle"
  /\ calls < MaxCalls
  /\ calls' = calls + 1
  /\ why' = [why EXCEPT ![t] = "lastfm"]
  /\ pc' = [pc EXCEPT ![t] = "lastfm"]
  /\ UNCHANGED <<now, credVars, ex, exId, token, toolVars, clientVars>>

\* lines 66-67: Last.fm answers; lastfm_get returns or raises
LastfmResponse(t) ==
  /\ pc[t] = "lastfm"
  /\ Finish(t)
  /\ UNCHANGED <<now, credVars, calls, toolVars, clientVars>>

\* variant: the clients are built with timeout=None
TimesOutNever(p) == FALSE

\* lines 29, 60, 76, 93, 110: every request is sent through a client built
\* by httpx.AsyncClient() with no timeout argument, so httpx applies its
\* default timeouts (5 seconds to connect, to write, to read) to it: each
\* of the three awaits can end with httpx.TimeoutException
TimesOut(p) == p \in {"exchanging", "requesting", "lastfm"}

\* The awaited request of task t times out: the exception leaves the
\* wrapper and the tool; for the token exchange it is raised at line 30,
\* before anything is written.
Timeout(t) ==
  /\ TimesOut(pc[t])
  /\ failedAt' = IF pc[t] = "exchanging" THEN exchanges ELSE failedAt
  /\ Finish(t)
  /\ UNCHANGED <<now, access_token, expires_at, exchanges, expFrom, calls,
                 toolVars, clientVars>>

Next ==
  \/ Tick
  \/ \E t \in Tasks : Call(t)
  \/ \E t \in Tasks, o \in ExchangeOutcomes, ttl \in TTLs :
       ExchangeResponse(t, o, ttl)
  \/ \E t \in Tasks : UpstreamResponse(t)
  \/ \E t \in Tasks : LastfmCall(t)
  \/ \E t \in Tasks : LastfmResponse(t)
  \/ \E t \in Tasks : Timeout(t)

Spec == Init /\ [][Next]_vars

\* The event loop runs a timer that is due: a request that stays unanswered
\* gets its timeout.  Nothing obliges an upstream to answer.
SpecLive == Spec /\ \A t \in Tasks : WF_vars(Timeout(t))

SpecClient == Init /\ [][NextClient]_vars

TypeOK ==
  /\ now \in 1..MaxTime
  /\ access_token \in 0..MaxCalls
  /\ expires_at \in 0..(MaxTime + MaxTTL)
  /\ pc \in [Tasks -> {"idle", "exchanging", "requesting", "lastfm"}]
  /\ tool \in Tools \cup {"none"}
  /\ \A n \in Tools : ToolVerb(n) \in Verbs
  /\ tpc \in {"idle", "requesting", "returned"}

\* ------------------------------------------------- the tools, one by one
\* The server is up with a valid credential cached and no tool call running.
InitTools ==
  /\ now = 1
  /\ access_token = 1
  /\ expires_at = 1 + MaxTTL
  /\ exchanges = 1
  /\ failedAt = 0
  /\ expFrom = 1
  /\ calls = 1
  /\ pc = [t \in Tasks |-> "idle"]
  /\ why = [t \in Tasks |-> "none"]
  /\ ex = [t \in Tasks |-> 0]
  /\ exId = [t \in Tasks |-> None]
  /\ token = [t \in Tasks |-> None]
  /\ tool = "none"
  /\ targ = NoArg
  /\ tpc = "idle"
  /\ upstream = NoResp
  /\ wrapped = NoResult
  /\ raw = JNull
  /\ out = JNull
  /\ request = NoRequest
  /\ reply = NoReply
  /\ alive = TRUE
  /\ InitClient

\* A tool is called with arguments a: it runs up to the await of its
\* wrapper; add_to_playlist has built its uri_list by then.
ToolCall(name, a) ==
  /\ alive
  /\ tpc = "idle"
  /\ tool' = name
  /\ targ' = a
  /\ request' = RequestUris(name, a)
  /\ tpc' = "requesting"
  /\ UNCHANGED <<now, credVars, calls, taskVars, upstream, wrapped, raw, out,
                 reply, alive, clientVars>>

CallTool == \E name \in Tools : \E a \in ToolArgs(name) : ToolCall(name, a)

\* The upstream answers r, with the JSON document doc as its body when the
\* body is JSON: the wrapper returns doc or raises, the tool shapes doc, and
\* the caller is answered.
ToolResponse(name, w, r, doc) ==
  /\ tool = name
  /\ tpc = "requesting"
  /\ w.kind = "json" \/ doc = JNull
  /\ upstream' = r
  /\ wrapped' = w
  /\ raw' = doc
  /\ LET o == CASE w.kind = "json" -> Shape(name, targ, doc)
                [] w.kind = "ok_marker" -> OkMarker
                [] OTHER -> Raised
         d == Dispatch(name, o)
     IN /\ out' = o
        /\ reply' = d.reply
        /\ alive' = d.alive
  /\ tpc' = "returned"
  /\ UNCHANGED <<now, credVars, calls, taskVars, tool, targ, request,
                 clientVars>>

\* lines 74, 91, 108: the get_access_token() a Spotify wrapper awaits
\* raises; the exception leaves the wrapper and the tool, no request is sent
AuthError ==
  /\ tool \in Tools \ LastfmTools
  /\ tpc = "requesting"
  /\ wrapped' = Result("auth_error", 0)
  /\ LET d == Dispatch(tool, Raised)
     IN /\ out' = Raised
        /\ reply' = d.reply
        /\ alive' = d.alive
  /\ tpc' = "returned"
  /\ UNCHANGED <<now, credVars, calls, taskVars, tool, targ, request,
                 upstream, raw, clientVars>>

\* the caller has its answer; the server waits for the next call
ToolDone ==
  /\ tpc = "returned"
  /\ tool' = "none"
  /\ targ' = NoArg
  /\ tpc' = "idle"
  /\ upstream' = NoResp
  /\ wrapped' = NoResult
  /\ raw' = JNull
  /\ out' = JNull
  /\ request' = NoRequest
  /\ reply' = NoReply
  /\ UNCHANGED <<now, credVars, calls, taskVars, alive, clientVars>>

SearchSpotify ==
  \E r \in Response, doc \in SearchPayloads :
    ToolResponse("search_spotify", spotify_get(r), r, doc)

ArtistTopTracks ==
  \E r \in Response, doc \in TopTracksPayloads :
    ToolResponse("artist_top_tracks", spotify_get(r), r, doc)

CurrentUserTopTracks ==
  \E r \in Response, doc \in UserTopTracksPayloads :
    ToolResponse("current_user_top_tracks", spotify_get(r), r, doc)

GetCurrentUserPlaylists ==
  \E r \in Response, doc \in PlaylistsPayloads :
    ToolResponse("get_current_user_playlists", spotify_get(r), r, doc)

GetPlaylistItems ==
  \E r \in Response, doc \in PlaylistItemsPayloads :
    ToolResponse("get_playlist_items", spotify_get(r), r, doc)

GetSimilarTracks ==
  \E r \in Response, doc \in SimilarTracksPayloads :
    ToolResponse("get_similar_tracks", lastfm_get(r), r, doc)

GetSimilarArtists ==
  \E r \in Response, doc \in SimilarArtistsPayloads :
    ToolResponse("get_similar_artists", lastfm_get(r), r, doc)

\* current_user_profile, create_playlist, add_to_playlist, start_playback
\* and pause_playback return what their wrapper returns
PlainTool ==
  \E name \in Tools \ ShapingTools, r \in Response, doc \in PlainPayloads :
    ToolResponse(name, Wrapper(ToolVerb(name), r), r, doc)

NextTools ==
  \/ CallTool
  \/ AuthError
  \/ ToolDone
  \/ PlainTool
  \/ SearchSpotify
  \/ ArtistTopTracks
  \/ CurrentUserTopTracks
  \/ GetCurrentUserPlaylists
  \/ GetPlaylistItems
  \/ GetSimilarTracks
  \/ GetSimilarArtists

SpecTools == InitTools /\ [][NextTools]_vars

\* ================================================================ claims
Invalid == access_token = None \/ now >= expires_at

\* a Spotify wrapper call of task t starts
Starts(t) == pc[t] = "idle" /\ pc'[t] \in {"exchanging", "requesting"}

\* C1 (as claimed): get_access_token() calls in flight together while the
\* cache is empty or expired all wait on one single token exchange.
C1_SingleExchange ==
  \A t1, t2 \in Tasks :
    (pc[t1] = "exchanging" /\ pc[t2] = "exchanging") => exId[t1] = exId[t2]

\* C2 (as claimed): for every verb, a response whose status is not 2xx makes
\* the wrapper fail with an error carrying that status, whatever the body.
C2_Non2xxFails ==
  (tpc = "returned" /\ upstream # NoResp /\ ~Is2xx(upstream.status))
    => (wrapped.kind = "http_error" /\ wrapped.status = upstream.status
        /\ out = Raised)

\* C3 (as claimed): a get_access_token() call that fails leaves access_token
\* and expires_at exactly as they were.
C3_FailedExchangeKeepsStore ==
  [][(\E t \in Tasks : pc[t] = "exchanging" /\ pc'[t] = "idle")
       => (access_token' = access_token /\ expires_at' = expires_at)]_vars

\* C4: a wrapper call that finds a cached credential past expires_at starts
\* exactly one token exchange and sends no upstream request before that
\* exchange has completed; the request it then sends carries the token
\* produced by that exchange.
C4_ExpiredRefreshesBeforeRequest ==
  [][\A t \in Tasks :
       /\ (Starts(t) /\ access_token # None /\ now >= expires_at)
            => /\ pc'[t] = "exchanging"
               /\ exchanges' = exchanges + 1
               /\ ex'[t] = 1
               /\ token'[t] = None
       /\ (pc[t] = "exchanging" /\ pc'[t] = "exchanging")
            => (token'[t] = None /\ ex'[t] = 1)
       /\ (pc[t] = "exchanging" /\ pc'[t] = "requesting")
            => /\ exchanges' = exchanges
               /\ ex'[t] = 1
               /\ token'[t] = exId[t]
               /\ access_token' = exId[t]
       /\ (pc[t] # "requesting" /\ pc'[t] = "requesting" /\ why'[t] = "expired")
            => pc[t] = "exchanging"]_vars

C4_Witness ==
  \E t \in Tasks :
    /\ pc[t] = "requesting"
    /\ why[t] = "expired"
    /\ ex[t] = 1
    /\ token[t] = exId[t]

\* C5: from a state in which a credential is cached and now < expires_at, no
\* step starts a token exchange, and a get_access_token() call made in such
\* a state returns the cached token.
C5_ValidCacheNoExchange ==
  [][(access_token # None /\ now < expires_at)
       => /\ exchanges' = exchanges
          /\ \A t \in Tasks :
               Starts(t) => /\ pc'[t] = "requesting"
                            /\ ex'[t] = 0
                            /\ token'[t] = access_token]_vars

C5_Witness ==
  \E t \in Tasks :
    /\ pc[t] = "requesting"
    /\ why[t] = "cached"
    /\ ex[t] = 0
    /\ token[t] = access_token
    /\ now < expires_at

\* C6 (as claimed): the cached token is returned only when
\* now < expires_at - margin for a margin > 0 (a margin is at least one tick
\* of the clock), and a call made in the margin refreshes.
C6_SafetyMargin ==
  [][\A t \in Tasks :
       Starts(t) => (pc'[t] = "requesting"
                       <=> (access_token # None /\ now + 1 < expires_at))]_vars

\* C7: a PUT whose upstream response has status 204 and an empty body
\* returns exactly the marker {status: "ok"} and no error.
C7_Put204Marker ==
  (tpc = "returned" /\ ToolVerb(tool) = "PUT"
     /\ upstream = [status |-> 204, body |-> "empty"])
    => (wrapped = Result("ok_marker", 204) /\ out = OkMarker)

C7_Witness ==
  /\ tpc = "returned"
  /\ tool = "pause_playback"
  /\ upstream = [status |-> 204, body |-> "empty"]
  /\ out = OkMarker

\* C8: GET and POST never return the marker {status: "ok"}: they return the
\* parsed JSON body of a 2xx response or they fail.
C8_MarkerOnlyForPut ==
  (tpc = "returned" /\ upstream # NoResp /\ ToolVerb(tool) \in {"GET", "POST"})
    => /\ wrapped.kind # "ok_marker"
       /\ out # OkMarker
       /\ \/ /\ wrapped.kind = "json"
             /\ Is2xx(upstream.status)
             /\ upstream.body = "json"
          \/ /\ wrapped.kind = "http_error"
             /\ ~Is2xx(upstream.status)
             /\ out = Raised
          \/ /\ wrapped.kind = "decode_error"
             /\ Is2xx(upstream.status)
             /\ upstream.body = "empty"
             /\ out = Raised

C8_Witness ==
  /\ tpc = "returned"
  /\ ToolVerb(tool) \in {"GET", "POST"}
  /\ upstream.status \in {200, 204}
  /\ upstream.body = "empty"
  /\ wrapped.kind = "decode_error"

\* C9: once a get_access_token() call has failed, the next call made with
\* the cache empty or expired starts a new token exchange; an exchange that
\* then succeeds lets its call go on with the new token, which is cached
\* with an expiry in the future, and calls made while it is valid succeed
\* with it.
C9_RetryAfterFailure ==
  [][failedAt # 0 =>
       \A t \in Tasks :
         /\ (Starts(t) /\ Invalid)
              => (pc'[t] = "exchanging" /\ exchanges' = exchanges + 1)
         /\ (Starts(t) /\ ~Invalid)
              => (pc'[t] = "requesting" /\ token'[t] = access_token)
         /\ (pc[t] = "exchanging" /\ pc'[t] = "requesting")
              => /\ token'[t] = exId[t]
                 /\ access_token' = exId[t]
                 /\ expires_at' > now]_vars

C9_Witness ==
  /\ failedAt # 0
  /\ \E t \in Tasks :
       /\ pc[t] = "requesting"
       /\ exId[t] > failedAt
       /\ token[t] = exId[t]
       /\ access_token = token[t]

\* C10 (as claimed): for every tool, a 2xx JSON payload whose container or
\* optional nested fields are absent or null is shaped into an empty or
\* null-defaulted result; the tool never raises on it.
C10_ShapingTotal ==
  (tpc = "returned" /\ Is2xx(upstream.status) /\ upstream.body = "json")
    => out # Raised

\* C11: an error raised while a tool runs (by get_access_token(), by the
\* request wrapper or by the shaping of the payload) is answered to the
\* caller of that call as an error result that names the tool, and the
\* server goes on taking tool calls.
C11_ErrorsBecomeResults ==
  /\ alive
  /\ tpc = "returned"
       => /\ reply.tool = tool
          /\ reply.isError <=> (out = Raised)
          /\ wrapped.kind \in {"auth_error", "http_error", "decode_error"}
               => reply = [isError |-> TRUE, tool |-> tool]

C11_Witness ==
  /\ alive
  /\ tpc = "returned"
  /\ tool = "search_spotify"
  /\ wrapped.kind = "http_error"
  /\ reply = [isError |-> TRUE, tool |-> "search_spotify"]

\* C12: every call that waits on an upstream (token endpoint, Spotify,
\* Last.fm) eventually ends, whether or not the upstream answers.  A
\* behaviour starts at most MaxCalls calls, so every call ends exactly when
\* from some point on no call is waiting any more.
C12_CallsComplete ==
  <>[](\A t \in Tasks : pc[t] = "idle")

\* a call waits on the token endpoint and another on its upstream, each
\* with its timeout running, and no answer has come by the end of the clock
C12_Witness ==
  \E t, u \in Tasks :
    /\ pc[t] = "exchanging"
    /\ pc[u] \in {"requesting", "lastfm"}
    /\ TimesOut(pc[t])
    /\ TimesOut(pc[u])
    /\ now = MaxTime

\* the field k of an upstream item, null when the item lacks it
C13_Field(item, k) == IF k \in DOMAIN item.o THEN item.o[k] ELSE JNull

\* an upstream item C13 speaks of: a dict whose artists, when given, is a
\* list of dicts and whose album, when given, is a dict
C13_Item(item) ==
  /\ item.t = "obj"
  /\ LET ar == C13_Field(item, "artists")
         al == C13_Field(item, "album")
     IN /\ ar.t \in {"null", "arr"}
        /\ ar.t = "arr" => \A n \in 1..Len(ar.a) : ar.a[n].t = "obj"
        /\ al.t \in {"null", "obj"}

\* the record rec carries what C13 says about item
C13_Record(item, rec) ==
  /\ rec.t = "obj"
  /\ DOMAIN rec.o = {"id", "name", "uri", "artists", "album"}
  /\ rec.o.id = C13_Field(item, "id")
  /\ rec.o.name = C13_Field(item, "name")
  /\ rec.o.uri = C13_Field(item, "uri")
  /\ LET ar == C13_Field(item, "artists")
     IN IF ar.t = "arr" /\ Len(ar.a) > 0
        THEN rec.o.artists =
               JArr([n \in 1..Len(ar.a) |-> C13_Field(ar.a[n], "name")])
        ELSE rec.o.artists \in {JNull, EmptyArr}
  /\ LET al == C13_Field(item, "album")
     IN IF al.t = "obj"
        THEN rec.o.album = C13_Field(al, "name")
        ELSE rec.o.album = JNull

\* the upstream items of a search of type st in the payload doc: the items
\* of the container named st followed by "s"; none when doc has no such
\* container
C13_Items(doc, st) ==
  IF (st \o "s") \in DOMAIN doc.o THEN doc.o[st \o "s"].o.items.a ELSE <<>>

\* the payloads C13 speaks of: a dict without the container, or with a
\* container that holds a list of items
C13_Payload(doc, st) ==
  /\ doc.t = "obj"
  /\ (st \o "s") \in DOMAIN doc.o
       => LET c == doc.o[st \o "s"]
          IN /\ c.t = "obj"
             /\ "items" \in DOMAIN c.o
             /\ c.o.items.t = "arr"
             /\ \A n \in 1..Len(c.o.items.a) : C13_Item(c.o.items.a[n])

C14_Commas(s) == {i \in 1..Len(s) : s[i] = ","}

C14_Comma(s, k) ==
  CHOOSE i \in C14_Commas(s) :
    Cardinality({j \in C14_Commas(s) : j <= i}) = k

\* the k-th comma-separated segment of s
C14_Segment(s, k) ==
  LET n == Cardinality(C14_Commas(s))
      from == IF k = 1 THEN 1 ELSE C14_Comma(s, k - 1) + 1
      to == IF k = n + 1 THEN Len(s) ELSE C14_Comma(s, k) - 1
  IN SubSeq(s, from, to)

\* seg without its leading and trailing blanks
C14_Trim(seg) ==
  LET ink == {i \in 1..Len(seg) : seg[i] # " "}
  IN IF ink = {} THEN <<>>
     ELSE SubSeq(seg, CHOOSE i \in ink : \A j \in ink : i <= j,
                      CHOOSE i \in ink : \A j \in ink : i >= j)

\* C14 (as claimed): the uris of the body that add_to_playlist posts are
\* the comma-separated segments of track_uri, trimmed and in order, and
\* none of them is empty.
C14_UrisValidated ==
  (tool = "add_to_playlist" /\ tpc \in {"requesting", "returned"})
    => /\ Len(request) = Cardinality(C14_Commas(targ.track_uri)) + 1
       /\ \A k \in 1..Len(request) :
            /\ request[k] = C14_Trim(C14_Segment(targ.track_uri, k))
            /\ request[k] # <<>>

\* C15: as long as every token exchange has succeeded, the stored
\* access_token and the stored expires_at come from the response of one
\* and the same exchange, under every interleaving of the calls.
C15_PairFromOneExchange ==
  failedAt = 0 => expFrom = access_token

C15_Witness ==
  /\ failedAt = 0
  /\ exchanges = 2
  /\ \A t \in Tasks : pc[t] # "exchanging"
  /\ access_token = 1
  /\ expFrom = 1

C17_StoreWrittenByGetAccessToken ==
  [][/\ \A t \in Tasks :
          (pc'[t] # pc[t] /\ (why[t] = "lastfm" \/ why'[t] = "lastfm"))
            => UNCHANGED <<access_token, expires_at, exchanges>>
     /\ (access_token' # access_token \/ expires_at' # expires_at)
          => \E t \in Tasks :
               /\ pc[t] = "exchanging"
               /\ pc'[t] # "exchanging"
               /\ why[t] \in {"empty", "expired"}
     /\ exchanges' # exchanges
          => \E t \in Tasks :
               /\ Starts(t)
               /\ pc'[t] = "exchanging"
               /\ why'[t] \in {"empty", "expired"}]_vars

C17_Witness ==
  \E t, u \in Tasks :
    /\ pc[t] = "lastfm"
    /\ pc[u] = "requesting"
    /\ why[u] = "empty"
    /\ exchanges = 1
    /\ access_token = 1

\* the lines read so far that are not empty, in order
C18_Queries == SelectSeq(lines, LAMBDA l : l # "")

\* C18: the loop reads no line after an empty one and has stopped exactly
\* when the last line read is empty; the agent is invoked once with every
\* non-empty line, in the order read; and whenever every invocation has
\* ended, with an answer or with an exception, the loop is back at its
\* prompt unless an empty line (or the end of the input) ended it.
C18_PromptLoop ==
  /\ \A i \in 1..(Len(lines) - 1) : lines[i] # ""
  /\ cpc = "stopped" <=> (lines # <<>> /\ lines[Len(lines)] = "")
  /\ invoked = C18_Queries
  /\ Len(log) = Len(invoked) - (IF cpc = "invoking" THEN 1 ELSE 0)
  /\ cpc = "invoking" => lines[Len(lines)] # ""
  /\ (Len(log) = Len(invoked) /\ (lines = <<>> \/ lines[Len(lines)] # ""))
       => cpc \in {"reading", "eof"}

C18_Witness ==
  /\ cpc = "stopped"
  /\ lines = <<"q1", "q2", "">>
  /\ invoked = <<"q1", "q2">>
  /\ log = <<"Error", "answer">>
====
